---------------------------- MODULE Spec2Model ----------------------------
(***************************************************************************)
(* dnsgate: reconciliation of remote blacklists, a whitelist and a local   *)
(* blacklist into one pruned, ordered block list (src/dnsgate/dnsgate.py). *)
(*                                                                         *)
(* A domain is a byte string, modelled as a sequence of byte values        *)
(* (b'e.c' is <<101, 46, 99>>).  A Python set is a TLA+ set; the order in  *)
(* which a for loop visits a set is not fixed by the language (bytes       *)
(* hashing is randomised per process), so every loop over a set takes an   *)
(* arbitrary enumeration of it.                                            *)
(***************************************************************************)
EXTENDS Naturals, Sequences, FiniteSets

(***************************************************************************)
(* Bounds of the model.                                                    *)
(***************************************************************************)
\* largest number of domains read from the remote sources
MaxRemote == 3
\* largest number of domains read from the whitelist file
MaxWhitelist == 1
\* largest number of domains read from the local blacklist file
MaxLocal == 1
\* largest domain set handed to the stand-alone pruning / ordering runs
MaxSet == 4

\* b'.', the label separator
Dot == 46

(***************************************************************************)
(* The domain tokens the inputs are drawn from.  All are normalized        *)
(* tokens: lowercase ASCII, no empty label.                                *)
(*   c        a bare public suffix                                         *)
(*   e.c      a registrable domain under c                                 *)
(*   a.e.c    a subdomain of e.c                                           *)
(*   b.a.e.c  a subdomain two levels below e.c                             *)
(*   m.t.o.k  a subdomain of t.o.k, registrable under the suffix o.k       *)
(*   x        a single label that is no public suffix (as "localhost")     *)
(***************************************************************************)
d_c == <<99>>
d_ec == <<101, 46, 99>>
d_aec == <<97, 46, 101, 46, 99>>
d_baec == <<98, 46, 97, 46, 101, 46, 99>>
d_mtok == <<109, 46, 116, 46, 111, 46, 107>>
d_x == <<120>>

Universe == {d_c, d_ec, d_aec, d_baec, d_mtok, d_x}

\* the sets of at most n tokens
Inputs(n) == {S \in SUBSET Universe : Cardinality(S) <= n}

(***************************************************************************)
(* bytes and list primitives                                               *)
(***************************************************************************)
\* x in s, for a byte x and a byte string s
Contains(s, x) == \E i \in 1..Len(s) : s[i] = x

\* bytes.split(sep): the pieces between the separators, empty pieces kept
RECURSIVE split(_, _)
split(s, sep) ==
    IF ~Contains(s, sep) THEN <<s>>
    ELSE LET i == CHOOSE j \in 1..Len(s) :
                      s[j] = sep /\ \A k \in 1..(j - 1) : s[k] # sep
         IN  <<SubSeq(s, 1, i - 1)>> \o split(SubSeq(s, i + 1, Len(s)), sep)

\* sep.join(parts)
RECURSIVE join(_, _)
join(sep, parts) ==
    IF parts = <<>> THEN <<>>
    ELSE IF Len(parts) = 1 THEN parts[1]
    ELSE parts[1] \o <<sep>> \o join(sep, Tail(parts))

\* list.reverse()
reverse(l) == [i \in 1..Len(l) |-> l[Len(l) + 1 - i]]

\* a < b for bytes objects: lexicographic by byte value, a proper prefix first
RECURSIVE BytesLess(_, _)
BytesLess(a, b) ==
    IF b = <<>> THEN FALSE
    ELSE IF a = <<>> THEN TRUE
    ELSE IF a[1] # b[1] THEN a[1] < b[1]
    ELSE BytesLess(Tail(a), Tail(b))

\* x < y for lists of bytes objects: lexicographic, a proper prefix first
RECURSIVE ListLess(_, _)
ListLess(x, y) ==
    IF y = <<>> THEN FALSE
    ELSE IF x = <<>> THEN TRUE
    ELSE IF x[1] # y[1] THEN BytesLess(x[1], y[1])
    ELSE ListLess(Tail(x), Tail(y))

\* one element put at its place in an ascending list, after its equals
RECURSIVE insort(_, _)
insort(l, x) ==
    IF l = <<>> THEN <<x>>
    ELSE IF ListLess(x, l[1]) THEN <<x>> \o l
    ELSE <<l[1]>> \o insort(Tail(l), x)

\* the list left as it was built, in the order the set was visited
list_unsorted(l) == l

\* list.sort(): ascending and stable
RECURSIVE list_sort(_)
list_sort(l) ==
    IF l = <<>> THEN <<>>
    ELSE insort(list_sort(SubSeq(l, 1, Len(l) - 1)), l[Len(l)])

\* the orders in which a for loop may visit the set S
RECURSIVE Orders(_)
Orders(S) ==
    IF S = {} THEN {<<>>}
    ELSE UNION {{<<d>> \o o : o \in Orders(S \ {d})} : d \in S}

\* the elements of a list
Range(l) == {l[i] : i \in 1..Len(l)}

(***************************************************************************)
(* The functions of dnsgate.py                                             *)
(***************************************************************************)
\* the public suffix table tldextract answers from: c, k and o.k
PublicSuffixes == {<<99>>, <<107>>, <<111, 46, 107>>}

\* tldextract's TLD_EXTRACT(domain): the suffix is the longest run of trailing
\* labels that is a public suffix ('' when none is), the domain is the label
\* before it ('' when there is none), the subdomain is what is left
TLD_EXTRACT(name) ==
    LET labels == split(name, Dot)
        n == Len(labels)
        hits == {i \in 1..n : join(Dot, SubSeq(labels, i, n)) \in PublicSuffixes}
        suffix_index == IF hits = {} THEN n + 1
                        ELSE CHOOSE i \in hits : \A j \in hits : i <= j
        registered == SubSeq(labels, 1, suffix_index - 1)
    IN  [subdomain |-> IF registered = <<>> THEN <<>>
                       ELSE join(Dot, SubSeq(registered, 1, Len(registered) - 1)),
         domain |-> IF registered = <<>> THEN <<>>
                    ELSE registered[Len(registered)],
         suffix |-> join(Dot, SubSeq(labels, suffix_index, n))]

\* dom.domain + '.' + dom.suffix
extract_psl_domain(domain) ==
    LET dom == TLD_EXTRACT(domain)
    IN  dom.domain \o <<Dot>> \o dom.suffix

\* every domain replaced by its PSL domain
strip_to_psl(domains) == {extract_psl_domain(line) : line \in domains}

\* hostname.encode('idna') succeeds on an ASCII name when every label but the
\* last has 1..63 bytes and the last has at most 63; the name is then unchanged
idna_encodable(hostname) ==
    LET labels == split(hostname, Dot)
    IN  /\ \A i \in 1..(Len(labels) - 1) :
               0 < Len(labels[i]) /\ Len(labels[i]) < 64
        /\ Len(labels[Len(labels)]) < 64

\* the hostnames that encode; one that raises is logged and left out
validate_domain_list(domains) == {hostname \in domains : idna_encodable(hostname)}

\* the domain with its first label popped
parent_of(domain) == join(Dot, Tail(split(domain, Dot)))

\* a body that removes a domain with a separator whether or not its parent is
\* in the set
prune_visit_unconditional(live, domain) ==
    IF Contains(domain, Dot) THEN live \ {domain} ELSE live

\* the body of the pruning loop for one domain of the copy, on the live set
prune_visit(live, domain) ==
    IF Contains(domain, Dot) /\ parent_of(domain) \in live
    THEN live \ {domain}
    ELSE live

\* a loop that is left after the first domain of the copy
prune_first_only(live, order) ==
    IF order = <<>> THEN live ELSE prune_visit(live, Head(order))

\* the pruning loop over the copy, visited in the order given
RECURSIVE prune_loop(_, _)
prune_loop(live, order) ==
    IF order = <<>> THEN live
    ELSE prune_loop(prune_visit(live, Head(order)), Tail(order))

\* prune_redundant_rules(domains_combined); order is the order in which the
\* deep copy domains_combined_orig is visited
prune_redundant_rules(domains_combined, order) == prune_loop(domains_combined, order)

\* the labels of a domain, last label first
rev_labels(domain) == reverse(split(domain, Dot))

\* group_by_tld(domains); order is the order in which domains is visited
group_by_tld(order) ==
    LET reversed_domains == list_sort([i \in 1..Len(order) |-> rev_labels(order[i])])
    IN  [i \in 1..Len(reversed_domains) |-> join(Dot, reverse(reversed_domains[i]))]

\* the body of the loop over the whitelist for one whitelisted domain: its
\* PSL domain is taken off the blacklist
unblock_visit(live, domain) ==
    LET domain_psl == extract_psl_domain(domain)
    IN  IF domain_psl \in live THEN live \ {domain_psl} ELSE live

RECURSIVE unblock_loop(_, _)
unblock_loop(live, order) ==
    IF order = <<>> THEN live
    ELSE unblock_loop(unblock_visit(live, Head(order)), Tail(order))

\* a body that adds nothing back
readd_never(live, whitelist, orig_domain) == live

\* the body of the loop over the original blacklist for one original domain:
\* the full hostname is added back when neither it nor its PSL domain is on
\* the blacklist as the loop has left it so far
readd_visit(live, whitelist, orig_domain) ==
    IF /\ orig_domain \notin whitelist
       /\ orig_domain \notin live
       /\ extract_psl_domain(orig_domain) \notin live
    THEN live \cup {orig_domain}
    ELSE live

RECURSIVE readd_loop(_, _, _)
readd_loop(live, whitelist, order) ==
    IF order = <<>> THEN live
    ELSE readd_loop(readd_visit(live, whitelist, Head(order)), whitelist, Tail(order))

\* the blacklist with no whitelisted domain taken off
subtract_nothing(combined, whitelist) == combined

\* domains_combined - domains_whitelist
subtract_whitelist(combined, whitelist) == combined \ whitelist

\* the blacklist without the local blacklist
readd_no_local(combined, local) == combined

\* the local blacklist united into the blacklist when it is not empty
readd_local_blacklist(combined, local) ==
    IF local # {} THEN combined \cup local ELSE combined

\* the condition of the if at line 482
psl_blocking(psl, m) == psl /\ m # "hosts"

\* an elif that is never taken
psl_in_hosts_mode_never(psl, m) == FALSE

\* the condition of the elif at line 518
psl_in_hosts_mode(psl, m) == psl /\ m = "hosts"

\* the whitelisted domains the closing loop warns about: those whose PSL
\* domain is an element of the final list
overlap_warned(whitelist, final) ==
    {domain \in whitelist : extract_psl_domain(domain) \in Range(final)}

\* the line written for one domain
output_line(m, domain) ==
    [line |-> IF m = "dnsmasq" THEN "server" ELSE "hosts", domain |-> domain]

(***************************************************************************)
(* The run of the dnsgate command                                          *)
(***************************************************************************)
VARIABLES
    pc,                     \* the place the run has reached
    mode,                   \* --mode: "dnsmasq" or "hosts"
    block_at_psl,           \* --block-at-psl
    dest_ip,                \* --dest-ip: "None" or "str"
    domains_whitelist,      \* the validated whitelist
    domains_combined_orig,  \* the validated union of the remote blacklists
    domains_combined,       \* the blacklist being worked on, a set
    domains,                \* the local blacklist as read from its file
    sorted_output,          \* the blacklist once group_by_tld made it a list
    log,                    \* the warnings and errors logged
    output_file,            \* what was written to the output file, in order
    exit_code,              \* "none" while running, then "0", "1", "TypeError"
    arg, ret, ret2, ret_list \* a function called on its own: argument, results

vars == <<pc, mode, block_at_psl, dest_ip, domains_whitelist,
          domains_combined_orig, domains_combined, domains, sorted_output,
          log, output_file, exit_code, arg, ret, ret2, ret_list>>

config == <<mode, block_at_psl, dest_ip>>
alone == <<arg, ret, ret2, ret_list>>

Entry(msg, domain) == [msg |-> msg, domain |-> domain]

Init ==
    /\ pc = "whitelist"
    /\ mode \in {"dnsmasq", "hosts"}
    /\ block_at_psl \in BOOLEAN
    /\ dest_ip \in {"None", "str"}
    /\ domains_whitelist = {}
    /\ domains_combined_orig = {}
    /\ domains_combined = {}
    /\ domains = {}
    /\ sorted_output = <<>>
    /\ log = {}
    /\ output_file = <<>>
    /\ exit_code = "none"
    /\ arg = {} /\ ret = {} /\ ret2 = {} /\ ret_list = <<>>

\* lines 439-446: the whitelist file is read; a non-empty whitelist is validated
ReadWhitelist ==
    /\ pc = "whitelist"
    /\ \E file \in Inputs(MaxWhitelist) :
           domains_whitelist' = IF file # {} THEN validate_domain_list(file) ELSE file
    /\ pc' = "remote"
    /\ UNCHANGED <<config, domains_combined_orig, domains_combined, domains,
                   sorted_output, log, output_file, exit_code, alone>>

\* lines 448-480: the remote sources are united, an empty union is warned
\* about, the union is validated and copied to the working blacklist
ReadRemote ==
    /\ pc = "remote"
    /\ \E fetched \in Inputs(MaxRemote) :
           /\ log' = IF Cardinality(fetched) = 0
                     THEN log \cup {Entry("0 domains from remote sources", <<>>)}
                     ELSE log
           /\ domains_combined_orig' = validate_domain_list(fetched)
           /\ domains_combined' = validate_domain_list(fetched)
    /\ pc' = "psl"
    /\ UNCHANGED <<config, domains_whitelist, domains, sorted_output,
                   output_file, exit_code, alone>>

\* lines 482-485
StripToPsl ==
    /\ pc = "psl"
    /\ psl_blocking(block_at_psl, mode)
    /\ domains_combined' = strip_to_psl(domains_combined)
    /\ pc' = "psl_subtract"
    /\ UNCHANGED <<config, domains_whitelist, domains_combined_orig, domains,
                   sorted_output, log, output_file, exit_code, alone>>

\* lines 487-491
PslSubtractWhitelist ==
    /\ pc = "psl_subtract"
    /\ domains_combined' = subtract_whitelist(domains_combined, domains_whitelist)
    /\ pc' = "psl_unblock"
    /\ UNCHANGED <<config, domains_whitelist, domains_combined_orig, domains,
                   sorted_output, log, output_file, exit_code, alone>>

\* lines 493-500: the loop over the whitelist
PslUnblockWhitelisted ==
    /\ pc = "psl_unblock"
    /\ \E order \in Orders(domains_whitelist) :
           domains_combined' = unblock_loop(domains_combined, order)
    /\ pc' = "psl_readd"
    /\ UNCHANGED <<config, domains_whitelist, domains_combined_orig, domains,
                   sorted_output, log, output_file, exit_code, alone>>

\* lines 502-516: the loop over the original blacklist
PslReadd ==
    /\ pc = "psl_readd"
    /\ \E order \in Orders(domains_combined_orig) :
           domains_combined' = readd_loop(domains_combined, domains_whitelist, order)
    /\ pc' = "subtract"
    /\ UNCHANGED <<config, domains_whitelist, domains_combined_orig, domains,
                   sorted_output, log, output_file, exit_code, alone>>

\* lines 518-520: quit(1)
PslHostsError ==
    /\ pc = "psl"
    /\ ~psl_blocking(block_at_psl, mode)
    /\ psl_in_hosts_mode(block_at_psl, mode)
    /\ log' = log \cup {Entry("--block-at-psl is not possible in hosts mode", <<>>)}
    /\ exit_code' = "1"
    /\ pc' = "exit"
    /\ UNCHANGED <<config, domains_whitelist, domains_combined_orig,
                   domains_combined, domains, sorted_output, output_file, alone>>

\* lines 522-525, reached past the PSL block or when neither the if nor the
\* elif took the run
SubtractWhitelist ==
    /\ \/ pc = "subtract"
       \/ /\ pc = "psl"
          /\ ~psl_blocking(block_at_psl, mode)
          /\ ~psl_in_hosts_mode(block_at_psl, mode)
    /\ domains_combined' = subtract_whitelist(domains_combined, domains_whitelist)
    /\ pc' = "local"
    /\ UNCHANGED <<config, domains_whitelist, domains_combined_orig, domains,
                   sorted_output, log, output_file, exit_code, alone>>

\* lines 527-537: the local blacklist file is read and united in
ReaddLocalBlacklist ==
    /\ pc = "local"
    /\ \E file \in Inputs(MaxLocal) :
           /\ domains' = file
           /\ domains_combined' = readd_local_blacklist(domains_combined, file)
    /\ pc' = "validate"
    /\ UNCHANGED <<config, domains_whitelist, domains_combined_orig,
                   sorted_output, log, output_file, exit_code, alone>>

\* lines 539-542
ValidateFinal ==
    /\ pc = "validate"
    /\ domains_combined' = validate_domain_list(domains_combined)
    /\ pc' = "prune"
    /\ UNCHANGED <<config, domains_whitelist, domains_combined_orig, domains,
                   sorted_output, log, output_file, exit_code, alone>>

\* lines 544-546
Prune ==
    /\ pc = "prune"
    /\ \E order \in Orders(domains_combined) :
           domains_combined' = prune_redundant_rules(domains_combined, order)
    /\ pc' = "group"
    /\ UNCHANGED <<config, domains_whitelist, domains_combined_orig, domains,
                   sorted_output, log, output_file, exit_code, alone>>

\* lines 548-550: domains_combined becomes the sorted list
GroupByTld ==
    /\ pc = "group"
    /\ \E order \in Orders(domains_combined) :
           sorted_output' = group_by_tld(order)
    /\ pc' = "check_empty"
    /\ UNCHANGED <<config, domains_whitelist, domains_combined_orig,
                   domains_combined, domains, log, output_file, exit_code, alone>>

\* lines 560-562: quit(1) on an empty list
EmptyExit ==
    /\ pc = "check_empty"
    /\ sorted_output = <<>>
    /\ log' = log \cup {Entry("The list of domains to block is empty", <<>>)}
    /\ exit_code' = "1"
    /\ pc' = "exit"
    /\ UNCHANGED <<config, domains_whitelist, domains_combined_orig,
                   domains_combined, domains, sorted_output, output_file, alone>>

\* lines 564-568: the loop over the whitelist that warns
WarnOverlap ==
    /\ pc = "check_empty"
    /\ sorted_output # <<>>
    /\ log' = log \cup {Entry("is listed in both", domain) :
                            domain \in overlap_warned(domains_whitelist, sorted_output)}
    /\ pc' = "write"
    /\ UNCHANGED <<config, domains_whitelist, domains_combined_orig,
                   domains_combined, domains, sorted_output, output_file,
                   exit_code, alone>>

\* lines 570-593: the header is written, then one line per domain.  With
\* --dest-ip the line is built as bytes + str, which raises TypeError at the
\* first domain, after the header was written.
WriteOutput ==
    /\ pc = "write"
    /\ IF dest_ip = "None"
       THEN /\ output_file' = <<[line |-> "header", domain |-> <<>>]>> \o
                    [i \in 1..Len(sorted_output) |-> output_line(mode, sorted_output[i])]
            /\ exit_code' = "0"
       ELSE /\ output_file' = <<[line |-> "header", domain |-> <<>>]>>
            /\ exit_code' = "TypeError"
    /\ pc' = "exit"
    /\ UNCHANGED <<config, domains_whitelist, domains_combined_orig,
                   domains_combined, domains, sorted_output, log, alone>>

Next ==
    \/ ReadWhitelist
    \/ ReadRemote
    \/ StripToPsl
    \/ PslSubtractWhitelist
    \/ PslUnblockWhitelisted
    \/ PslReadd
    \/ PslHostsError
    \/ SubtractWhitelist
    \/ ReaddLocalBlacklist
    \/ ValidateFinal
    \/ Prune
    \/ GroupByTld
    \/ EmptyExit
    \/ WarnOverlap
    \/ WriteOutput

Spec == Init /\ [][Next]_vars

(***************************************************************************)
(* prune_redundant_rules and group_by_tld called on their own, on any set  *)
(* of at most MaxSet tokens                                                *)
(***************************************************************************)
InitAlone ==
    /\ pc = "call"
    /\ mode = "dnsmasq"
    /\ block_at_psl = FALSE
    /\ dest_ip = "None"
    /\ domains_whitelist = {}
    /\ domains_combined_orig = {}
    /\ domains_combined = {}
    /\ domains = {}
    /\ sorted_output = <<>>
    /\ log = {}
    /\ output_file = <<>>
    /\ exit_code = "none"
    /\ arg \in Inputs(MaxSet)
    /\ ret = {} /\ ret2 = {} /\ ret_list = <<>>

\* ret = prune_redundant_rules(arg)
CallPrune ==
    /\ pc = "call"
    /\ \E order \in Orders(arg) : ret' = prune_redundant_rules(arg, order)
    /\ pc' = "pruned"
    /\ UNCHANGED <<config, domains_whitelist, domains_combined_orig,
                   domains_combined, domains, sorted_output, log, output_file,
                   exit_code, arg, ret2, ret_list>>

\* ret2 = prune_redundant_rules(ret)
CallPruneAgain ==
    /\ pc = "pruned"
    /\ \E order \in Orders(ret) : ret2' = prune_redundant_rules(ret, order)
    /\ pc' = "pruned_twice"
    /\ UNCHANGED <<config, domains_whitelist, domains_combined_orig,
                   domains_combined, domains, sorted_output, log, output_file,
                   exit_code, arg, ret, ret_list>>

\* ret_list = group_by_tld(arg)
CallGroupByTld ==
    /\ pc = "call"
    /\ \E order \in Orders(arg) : ret_list' = group_by_tld(order)
    /\ pc' = "grouped"
    /\ UNCHANGED <<config, domains_whitelist, domains_combined_orig,
                   domains_combined, domains, sorted_output, log, output_file,
                   exit_code, arg, ret, ret2>>

NextAlone ==
    \/ CallPrune
    \/ CallPruneAgain
    \/ CallGroupByTld

SpecAlone == InitAlone /\ [][NextAlone]_vars

(***************************************************************************)
(* Vocabulary of the properties                                            *)
(***************************************************************************)
\* the proper ancestors of a domain: what is left after dropping one or more
\* leading labels
Ancestors(d) ==
    LET labels == split(d, Dot)
        n == Len(labels)
    IN  {join(Dot, SubSeq(labels, i, n)) : i \in 2..n}

\* label a before label b: lexicographic by byte value, a proper prefix first
LabelLess(a, b) ==
    \E k \in 1..Len(b) :
        /\ \A i \in 1..(k - 1) : i <= Len(a) /\ a[i] = b[i]
        /\ k = Len(a) + 1 \/ (k <= Len(a) /\ a[k] < b[k])

\* the labels of a domain from the top-level label down
TldFirst(d) ==
    LET labels == split(d, Dot)
    IN  [i \in 1..Len(labels) |-> labels[Len(labels) + 1 - i]]

\* d1 sorts before d2 by reversed label sequence: lexicographic by label, a
\* proper prefix first
KeyLess(d1, d2) ==
    LET x == TldFirst(d1)
        y == TldFirst(d2)
    IN  \E k \in 1..Len(y) :
            /\ \A i \in 1..(k - 1) : i <= Len(x) /\ x[i] = y[i]
            /\ k = Len(x) + 1 \/ (k <= Len(x) /\ LabelLess(x[k], y[k]))

\* the run was started with --block-at-psl and --mode hosts
Conflict == block_at_psl /\ mode = "hosts"

\* the run has produced its final ordered list
Ordered == pc \in {"check_empty", "write"} \/ (pc = "exit" /\ ~Conflict)

\* the domains of the final ordered list
Final == Range(sorted_output)

\* the run is past the closing loop over the whitelist
PastWarnings == pc = "write" \/ (pc = "exit" /\ exit_code \in {"0", "TypeError"})

\* the domains of the domain lines of the output file, in the order written
DomainLines ==
    LET body == SelectSeq(output_file, LAMBDA r : r.line # "header")
    IN  [i \in 1..Len(body) |-> body[i].domain]

(***************************************************************************)
(* Properties                                                              *)
(***************************************************************************)
\* C1: every domain of the local blacklist is an element of the final ordered
\* output, also when it or its PSL domain is whitelisted and after pruning.
C1_LocalInOutput ==
    Ordered => \A d \in domains : d \in Final

\* C1 (amended): every domain of the local blacklist is an element of the
\* final ordered output or has a proper ancestor that is one.
C1_LocalInOutputOrCovered ==
    Ordered => \A d \in domains : d \in Final \/ Ancestors(d) \cap Final # {}

\* a run with --block-at-psl whose local blacklist entry is whitelisted and is
\* in the final list, next to another entry
C1_Witness ==
    /\ Ordered /\ block_at_psl
    /\ \E d \in domains : d \in domains_whitelist /\ d \in Final
    /\ Len(sorted_output) >= 2

\* C3: with --block-at-psl off, no domain of the whitelist is an element of
\* the final ordered output.
C3_NoWhitelistedInOutput ==
    (Ordered /\ ~block_at_psl) => \A d \in domains_whitelist : d \notin Final

\* C3 (amended): with --block-at-psl off, no domain of the whitelist that is
\* not in the local blacklist is an element of the final ordered output.
C3_NoWhitelistedUnlessLocal ==
    (Ordered /\ ~block_at_psl) =>
        \A d \in domains_whitelist \ domains : d \notin Final

\* a run without --block-at-psl in which a remotely blacklisted domain is
\* whitelisted and not locally blacklisted, and the final list is not empty
C3_Witness ==
    /\ Ordered /\ ~block_at_psl
    /\ \E d \in domains_whitelist : d \in domains_combined_orig /\ d \notin domains
    /\ sorted_output # <<>>

\* C2: prune_redundant_rules removes every domain that has a proper ancestor
\* in the argument, also when its immediate parent is absent, so what it
\* returns is the argument without the domains that have an ancestor in it.
C2_PruneAnyDepth ==
    pc = "pruned" =>
        /\ ret = {d \in arg : Ancestors(d) \cap arg = {}}
        /\ \A d \in ret : Ancestors(d) \cap ret = {}

\* C4: once the closing loop over the whitelist has run, a warning naming d
\* was logged for every domain d that is in the local blacklist and in the
\* whitelist, whatever the PSL domain of d is.
C4_OverlapWarned ==
    PastWarnings =>
        \A d \in domains \cap domains_whitelist :
            Entry("is listed in both", d) \in log

\* C5: a run that ends without configuration conflict has, when its final
\* list is empty, exit code 1 and nothing written, and otherwise one domain
\* line written per domain of the final list, in its order.
C5_EmptyFatalElseWritten ==
    (pc = "exit" /\ ~Conflict) =>
        IF sorted_output = <<>>
        THEN exit_code = "1" /\ output_file = <<>>
        ELSE DomainLines = sorted_output

\* C6: a run with --block-at-psl and --mode hosts never reaches a stage past
\* the configuration check and writes nothing; it ends with exit code 1, the
\* working blacklist still the copy of the validated remote blacklist, the
\* local blacklist unread and no list ordered.
C6_ConflictFailsFast ==
    Conflict =>
        /\ pc \in {"whitelist", "remote", "psl", "exit"}
        /\ output_file = <<>>
        /\ pc = "exit" =>
               /\ exit_code = "1"
               /\ domains_combined = domains_combined_orig
               /\ domains = {}
               /\ sorted_output = <<>>

\* a conflicting run that has ended, with a whitelist and a remote blacklist
\* that stripping and subtraction would have changed
C6_Witness ==
    /\ Conflict /\ pc = "exit"
    /\ domains_whitelist \cap domains_combined_orig # {}
    /\ strip_to_psl(domains_combined_orig) # domains_combined_orig

\* C7: group_by_tld returns a list that holds exactly the domains of its
\* argument, each once; that ascends by reversed label sequence, so that the
\* domains of one top-level label are contiguous; and that is the same for
\* every order in which the argument is visited.
C7_CanonicalOrder ==
    pc = "grouped" =>
        /\ Len(ret_list) = Cardinality(arg)
        /\ Range(ret_list) = arg
        /\ \A i, j \in 1..Len(ret_list) :
               i < j => KeyLess(ret_list[i], ret_list[j])
        /\ \A i, j, k \in 1..Len(ret_list) :
               (i < j /\ j < k /\ TldFirst(ret_list[i])[1] = TldFirst(ret_list[k])[1])
                   => TldFirst(ret_list[j])[1] = TldFirst(ret_list[i])[1]
        /\ \A order \in Orders(arg) : group_by_tld(order) = ret_list

\* three domains of two top-level labels, ordered
C7_Witness ==
    pc = "grouped" /\ ret_list = <<d_ec, d_aec, d_mtok>>

\* C8: pruning what prune_redundant_rules returned removes nothing, whatever
\* the order of the first and of the second pass.
C8_PruneIdempotent ==
    /\ pc \in {"pruned", "pruned_twice"} =>
           \A order \in Orders(ret) : prune_redundant_rules(ret, order) = ret
    /\ pc = "pruned_twice" => ret2 = ret

\* a second pass after a first pass that removed a domain and kept two
C8_Witness ==
    pc = "pruned_twice" /\ ret # arg /\ Cardinality(ret) = 2 /\ ret2 = ret

\* C9: a run without configuration conflict that fetched no remote domain and
\* read a non-empty local blacklist ends with exit code 0, has logged nothing
\* but warnings, and has written the local blacklist as pruned.
C9_EmptyRemoteNonFatal ==
    ( /\ pc = "exit" /\ ~Conflict
      /\ Entry("0 domains from remote sources", <<>>) \in log
      /\ domains # {} ) =>
        /\ exit_code = "0"
        /\ Entry("The list of domains to block is empty", <<>>) \notin log
        /\ \E order \in Orders(domains) :
               /\ Range(DomainLines) = prune_redundant_rules(domains, order)
               /\ Len(DomainLines) = Cardinality(Range(DomainLines))

\* C10: the loop that adds original domains back leaves the blacklist S it
\* started from united with the original domains that are not whitelisted,
\* not in S and whose PSL domain is not in S, whatever the order of the loop.
C10_ReaddFromSnapshot ==
    [][pc = "psl_readd" =>
          domains_combined' = domains_combined \cup
              {d \in domains_combined_orig :
                   /\ d \notin domains_whitelist
                   /\ d \notin domains_combined
                   /\ extract_psl_domain(d) \notin domains_combined}]_vars

\* C11: for one argument, prune_redundant_rules returns the same set whatever
\* the order in which the copy is visited.
C11_PruneOrderFree ==
    pc = "pruned" =>
        \A order \in Orders(arg) : prune_redundant_rules(arg, order) = ret

\* C12: with --block-at-psl, once the whitelist was subtracted, the PSL
\* domains of the whitelist were removed and the original domains were added
\* back, no PSL domain of a whitelisted domain is on the blacklist.
C12_WhitelistedRootNotBlocked ==
    pc = "subtract" =>
        \A w \in domains_whitelist :
            extract_psl_domain(w) \notin domains_combined

\* C13: whatever the order of the visit, what prune_redundant_rules returns is
\* a subset of its argument, every domain of the argument is in it or has a
\* proper ancestor in it, and no domain without a separator is removed.
C13_PruneKeepsCoverage ==
    pc = "pruned" =>
        \A order \in Orders(arg) :
            LET kept == prune_redundant_rules(arg, order)
            IN  /\ kept \subseteq arg
                /\ \A d \in arg : d \in kept \/ Ancestors(d) \cap kept # {}
                /\ \A d \in arg : ~Contains(d, Dot) => d \in kept

\* a pass that removed a domain whose parent it removed too, from an argument
\* that holds a domain without a separator
C13_Witness ==
    /\ pc = "pruned"
    /\ \E d \in arg \ ret : parent_of(d) \in arg \ ret
    /\ \E d \in arg : ~Contains(d, Dot)

\* C14: once the final list is ordered, every original remote domain that is
\* not whitelisted, and whose PSL domain is itself or one of its ancestors, is
\* an element of the list or has an ancestor that is one.
C14_NothingDropped ==
    Ordered =>
        \A d \in domains_combined_orig \ domains_whitelist :
            extract_psl_domain(d) \in ({d} \cup Ancestors(d)) =>
                d \in Final \/ Ancestors(d) \cap Final # {}

\* a run with --block-at-psl and a whitelist in which an original domain was
\* added back in full and is in the final list, its PSL domain is not, and
\* another original domain is covered by an ancestor only
C14_Witness ==
    /\ Ordered /\ block_at_psl /\ domains_whitelist # {}
    /\ \E d \in domains_combined_orig \ domains_whitelist :
           /\ extract_psl_domain(d) \in Ancestors(d)
           /\ d \in Final
           /\ extract_psl_domain(d) \notin Final
    /\ \E d \in domains_combined_orig \ domains_whitelist :
           /\ extract_psl_domain(d) \in ({d} \cup Ancestors(d))
           /\ d \notin Final

=============================================================================
